---- MODULE Spec2Model ----
(***************************************************************************)
(* A model of notion-to-obsidian.py: the text pipeline applied to each     *)
(* Markdown file (frontmatter stripping, link rewriting, breadcrumb        *)
(* injection), the filename resolver, and the flatten orchestrator.        *)
(*                                                                         *)
(* A text is a sequence of one-character strings.  The two regular         *)
(* expressions of the program are modelled by the match Python's           *)
(* backtracking engine selects (leftmost, greedy and lazy quantifiers in   *)
(* their priority order), computed position by position.                   *)
(***************************************************************************)
EXTENDS Integers, Sequences, FiniteSets, TLC

VARIABLES
    fm_text, fm_once, fm_twice, fm_pc,      \* remove_frontmatter applied once, twice
    ln_link, ln_out, ln_pc,                 \* convert_md_links_to_wikilinks on one text
    rs_desired, rs_present, rs_out, rs_pc,  \* slugify_filename + ensure_unique_path
    copy_assets, todo, outdir, assets_dirs, assets_files,
    md_count, asset_count, pc, failed_at, handled

fmVars == <<fm_text, fm_once, fm_twice, fm_pc>>
lnVars == <<ln_link, ln_out, ln_pc>>
rsVars == <<rs_desired, rs_present, rs_out, rs_pc>>
runVars == <<copy_assets, todo, outdir, assets_dirs, assets_files,
             md_count, asset_count, pc, failed_at, handled>>
vars == <<fm_text, fm_once, fm_twice, fm_pc, ln_link, ln_out, ln_pc,
          rs_desired, rs_present, rs_out, rs_pc,
          copy_assets, todo, outdir, assets_dirs, assets_files,
          md_count, asset_count, pc, failed_at, handled>>

----------------------------------------------------------------------------
(* Characters and small string helpers.                                    *)

NL == "\n"

\* Python's \s and str.strip() whitespace, as far as the model's alphabet goes.
IsSpace(c) == c \in {" ", "\n", "\t", "\r", "\f"}

\* [\x00-\x1f\x7f]: the control characters TLA+ can write.
IsControl(c) == c \in {"\n", "\t", "\r", "\f"}

UpperSeq ==
    <<"A","B","C","D","E","F","G","H","I","J","K","L","M",
      "N","O","P","Q","R","S","T","U","V","W","X","Y","Z">>

LowerSeq ==
    <<"a","b","c","d","e","f","g","h","i","j","k","l","m",
      "n","o","p","q","r","s","t","u","v","w","x","y","z">>

\* re.IGNORECASE compares characters by their lower-case form.
Lower(c) ==
    IF \E i \in 1..Len(UpperSeq) : UpperSeq[i] = c
    THEN LowerSeq[CHOOSE i \in 1..Len(UpperSeq) : UpperSeq[i] = c]
    ELSE c

\* s[i..] starts with the literal lit.
HasAt(s, i, lit) ==
    /\ i >= 1
    /\ i + Len(lit) - 1 <= Len(s)
    /\ \A k \in 1..Len(lit) : s[i + k - 1] = lit[k]

\* The same, ignoring case.
HasAtCI(s, i, lit) ==
    /\ i >= 1
    /\ i + Len(lit) - 1 <= Len(s)
    /\ \A k \in 1..Len(lit) : Lower(s[i + k - 1]) = Lower(lit[k])

\* The position after the longest run of whitespace starting at i (greedy \s*).
SpaceRunEnd(s, i) ==
    CHOOSE j \in i..(Len(s) + 1) :
        /\ \A k \in i..(j - 1) : IsSpace(s[k])
        /\ (j = Len(s) + 1 \/ ~IsSpace(s[j]))

\* s[i..] (empty when i is past the end).
From(s, i) == SubSeq(s, i, Len(s))

Min(S) == CHOOSE x \in S : \A y \in S : x <= y
Max(S) == CHOOSE x \in S : \A y \in S : x >= y

RECURSIVE Flatten(_)
Flatten(ss) == IF ss = <<>> THEN <<>> ELSE Head(ss) \o Flatten(From(ss, 2))

\* str.strip(): whitespace removed at both ends.
Strip(s) ==
    LET keep == {i \in 1..Len(s) : ~IsSpace(s[i])}
    IN  IF keep = {} THEN <<>> ELSE SubSeq(s, Min(keep), Max(keep))

\* str.replace(old, new) for a one-character old.
ReplaceChar(s, old, new) == [i \in 1..Len(s) |-> IF s[i] = old THEN new ELSE s[i]]

\* re.sub(r"[\x00-\x1f\x7f]+", "", name): every control character is removed.
RemoveControl(s) == SelectSeq(s, LAMBDA c : ~IsControl(c))

Digits == <<"0","1","2","3","4","5","6","7","8","9">>

RECURSIVE ToStr(_)
\* str(n) for n >= 0.
ToStr(n) == IF n < 10 THEN <<Digits[n + 1]>> ELSE ToStr(n \div 10) \o <<Digits[(n % 10) + 1]>>

----------------------------------------------------------------------------
(* slugify_filename, os.path.splitext, ensure_unique_path.                 *)

slugify_filename(name) ==
    LET stripped == Strip(name)
        noSep == ReplaceChar(ReplaceChar(stripped, "\\", "-"), "/", "-")
    IN  RemoveControl(noSep)

\* os.path.splitext: the extension starts at the last dot after the last
\* separator, unless only dots precede it in the file name.
splitext(p) ==
    LET seps == {i \in 1..Len(p) : p[i] = "/"}
        dots == {i \in 1..Len(p) : p[i] = "."}
        sepIndex == IF seps = {} THEN 0 ELSE Max(seps)
        dotIndex == IF dots = {} THEN 0 ELSE Max(dots)
    IN  IF dotIndex > sepIndex
           /\ \E i \in (sepIndex + 1)..(dotIndex - 1) : p[i] # "."
        THEN <<SubSeq(p, 1, dotIndex - 1), From(p, dotIndex)>>
        ELSE <<p, <<>>>>

RECURSIVE unique_loop(_, _, _, _, _)
\* The while loop of ensure_unique_path; exists is os.path.exists in folder.
unique_loop(exists, base, ext, candidate, counter) ==
    IF candidate \in exists
    THEN unique_loop(exists, base, ext,
                     base \o <<"-">> \o ToStr(counter) \o ext, counter + 1)
    ELSE candidate

unique_from_zero(exists, filename) ==
    LET parts == splitext(filename)
    IN  unique_loop(exists, parts[1], parts[2], filename, 0)

ensure_unique_path(exists, filename) ==
    LET parts == splitext(filename)
    IN  unique_loop(exists, parts[1], parts[2], filename, 1)

----------------------------------------------------------------------------
(* remove_frontmatter: re.sub(r'^\s*---\s*\n.*?\n---\s*\n+', '', content,  *)
(* flags=re.DOTALL).  Without re.MULTILINE ^ matches at position 1 only,   *)
(* so at most one block is removed.                                        *)

Dashes == <<"-", "-", "-">>

\* '\n---\s*\n+' matches at p: the closing delimiter line and its newline.
ClosesAt(s, p) ==
    /\ p >= 1 /\ p <= Len(s)
    /\ s[p] = NL
    /\ HasAt(s, p + 1, Dashes)
    /\ \E n \in (p + 4)..(SpaceRunEnd(s, p + 4) - 1) : s[n] = NL

\* Where that match ends: greedy \s* gives back to the last newline of the
\* whitespace run, and \n+ takes it.
CloseEnd(s, p) ==
    1 + Max({n \in (p + 4)..(SpaceRunEnd(s, p + 4) - 1) : s[n] = NL})

\* The position after the match of the whole pattern at the start of s, or 0.
\* Greedy \s* before \n tries the latest newline of the run first; lazy .*?
\* then takes the nearest closing delimiter.
frontmatter_end(s) ==
    LET a == SpaceRunEnd(s, 1)
    IN  IF ~HasAt(s, a, Dashes) THEN 0
        ELSE LET b == a + 3
                 r == SpaceRunEnd(s, b)
                 closes(q) == {p \in (q + 1)..Len(s) : ClosesAt(s, p)}
                 opens == {q \in b..(r - 1) : s[q] = NL /\ closes(q) # {}}
             IN  IF opens = {} THEN 0
                 ELSE CloseEnd(s, Min(closes(Max(opens))))

remove_frontmatter(content) ==
    LET e == frontmatter_end(content)
    IN  IF e = 0 THEN content ELSE From(content, e)

----------------------------------------------------------------------------
(* convert_md_links_to_wikilinks.                                          *)

HexDigits ==
    {"0","1","2","3","4","5","6","7","8","9",
     "a","b","c","d","e","f","A","B","C","D","E","F"}

\* The character a %XX escape stands for.  The escapes of the texts explored
\* here are %20, %23, %2F and %5C; any other decodes to a character that is
\* none of the model's alphabet.
PercentChar(h1, h2) ==
    CASE <<h1, Lower(h2)>> = <<"2", "0">> -> " "
      [] <<h1, Lower(h2)>> = <<"2", "3">> -> "#"
      [] <<h1, Lower(h2)>> = <<"2", "f">> -> "/"
      [] <<h1, Lower(h2)>> = <<"5", "c">> -> "\\"
      [] OTHER -> "?"

RECURSIVE unquote(_)
\* urllib.parse.unquote: % followed by two hex digits becomes the character.
unquote(s) ==
    IF s = <<>> THEN <<>>
    ELSE IF s[1] = "%" /\ Len(s) >= 3 /\ s[2] \in HexDigits /\ s[3] \in HexDigits
         THEN <<PercentChar(s[2], s[3])>> \o unquote(From(s, 4))
         ELSE <<s[1]>> \o unquote(From(s, 2))

\* match.group(2).split('#')[0]
DropAnchor(t) ==
    LET hashes == {i \in 1..Len(t) : t[i] = "#"}
    IN  IF hashes = {} THEN t ELSE SubSeq(t, 1, Min(hashes) - 1)

\* os.path.basename (posixpath): what follows the last slash.
basename(p) ==
    LET seps == {i \in 1..Len(p) : p[i] = "/"}
    IN  IF seps = {} THEN p ELSE From(p, Max(seps) + 1)

DotMd == <<".", "m", "d">>

\* re.sub(r'\.md$', '', target, flags=re.IGNORECASE); $ matches at the end and
\* before a newline that ends the string.
StripMdExt(t) ==
    LET n == Len(t)
    IN  IF HasAtCI(t, n - 2, DotMd) THEN SubSeq(t, 1, n - 3)
        ELSE IF n >= 1 /\ t[n] = NL /\ HasAtCI(t, n - 3, DotMd)
             THEN SubSeq(t, 1, n - 4) \o <<NL>>
        ELSE t

\* The name repl derives from the link's target (lines 59-63).
link_name(group2) ==
    ReplaceChar(StripMdExt(basename(unquote(DropAnchor(group2)))), "\\", "/")

\* repl: the replacement for one matched link.
repl(group1, group2) ==
    LET text == Strip(group1)
        target == link_name(group2)
    IN  IF text = target
        THEN <<"[", "[">> \o target \o <<"]", "]">>
        ELSE <<"[", "[">> \o target \o <<"|">> \o text \o <<"]", "]">>

\* The text between ( and ) matches [^)]+?\.md(?:#[^)]+)? as a whole: a
\* non-empty prefix, .md in any case, then nothing or # and a non-empty rest.
TargetMatches(t) ==
    \E n \in 2..Len(t) :
        /\ HasAtCI(t, n, DotMd)
        /\ \/ n + 2 = Len(t)
           \/ (n + 4 <= Len(t) /\ t[n + 3] = "#")

\* The first position >= i holding character c, or 0.
Find(s, i, c) ==
    LET at == {k \in i..Len(s) : s[k] = c}
    IN  IF at = {} THEN 0 ELSE Min(at)

\* \[([^\]]+)\]\(([^)]+?\.md(?:#[^)]+)?)\) matches at i.  Group 1 runs to the
\* first ], group 2 from the ( that follows it to the first ).
MatchAt(s, i) ==
    /\ s[i] = "["
    /\ LET j == Find(s, i + 1, "]")
       IN  /\ j > i + 1
           /\ j + 1 <= Len(s) /\ s[j + 1] = "("
           /\ LET k == Find(s, j + 2, ")")
              IN  k > 0 /\ TargetMatches(SubSeq(s, j + 2, k - 1))

Group1(s, i) == SubSeq(s, i + 1, Find(s, i + 1, "]") - 1)
Group2(s, i) ==
    LET j == Find(s, i + 1, "]")
    IN  SubSeq(s, j + 2, Find(s, j + 2, ")") - 1)
MatchEnd(s, i) == Find(s, Find(s, i + 1, "]") + 2, ")") + 1

RECURSIVE sub_links(_, _)
\* pattern.sub(repl, content) from position i on: leftmost matches, one after
\* the other, never overlapping.
sub_links(s, i) ==
    IF i > Len(s) THEN <<>>
    ELSE IF MatchAt(s, i)
         THEN repl(Group1(s, i), Group2(s, i)) \o sub_links(s, MatchEnd(s, i))
         ELSE <<s[i]>> \o sub_links(s, i + 1)

convert_md_links_to_wikilinks(content) == sub_links(content, 1)

----------------------------------------------------------------------------
(* add_breadcrumb and the text pipeline of process_file.                   *)

RECURSIVE Split(_, _)
\* str.split(sep) for a one-character separator.
Split(s, sep) ==
    LET k == Find(s, 1, sep)
    IN  IF k = 0 THEN <<s>> ELSE <<SubSeq(s, 1, k - 1)>> \o Split(From(s, k + 1), sep)

RECURSIVE Join(_, _)
\* sep.join(parts)
Join(parts, sep) ==
    IF parts = <<>> THEN <<>>
    ELSE IF Len(parts) = 1 THEN parts[1]
    ELSE parts[1] \o sep \o Join(From(parts, 2), sep)

ParentLabel == <<"*","*","P","a","r","e","n","t",":","*","*"," ">>
Arrow == <<" ", ">", " ">>

add_breadcrumb(content, parent_rel_path) ==
    IF parent_rel_path = <<>> \/ parent_rel_path = <<".">> THEN content
    ELSE LET parts == SelectSeq(Split(parent_rel_path, "/"),
                                LAMBDA p : p # <<>> /\ p # <<".">>)
             links == Join([i \in 1..Len(parts) |->
                              <<"[", "[">> \o parts[i] \o <<"]", "]">>], Arrow)
         IN  IF parts = <<>> THEN content
             ELSE ParentLabel \o links \o <<NL, NL>> \o content

\* os.path.relpath(os.path.dirname(md_path), export_root) for a file whose
\* directory lies dir_segments below the export root.
rel_dir_of(dir_segments) ==
    IF dir_segments = <<>> THEN <<".">> ELSE Join(dir_segments, <<"/">>)

breadcrumb_first(raw, dir_segments) ==
    convert_md_links_to_wikilinks(
        add_breadcrumb(remove_frontmatter(raw), rel_dir_of(dir_segments)))

\* Lines 94-99 of process_file: the content written for a file read as raw.
transform(raw, dir_segments) ==
    add_breadcrumb(convert_md_links_to_wikilinks(remove_frontmatter(raw)),
                   rel_dir_of(dir_segments))

----------------------------------------------------------------------------
(* Bounds of the explored inputs.                                          *)

MaxFMTokens == 6        \* tokens in a text given to remove_frontmatter
MaxTargetTokens == 4    \* tokens in a link target
MaxSuffix == 3          \* numbered names that may already be present
MaxFiles == 3           \* files in the export tree

\* Every text made of at most n of the tokens.
TextsOf(tokens, n) ==
    UNION {{Flatten([i \in 1..m |-> tokens[f[i]]]) : f \in [1..m -> 1..Len(tokens)]}
           : m \in 0..n}

Idle == "idle"

\* The parts of the state a specification does not use stay idle.
IdleFrontmatter == fm_text = Idle /\ fm_once = Idle /\ fm_twice = Idle /\ fm_pc = Idle
IdleLinks == ln_link = Idle /\ ln_out = Idle /\ ln_pc = Idle
IdleResolve == rs_desired = Idle /\ rs_present = Idle /\ rs_out = Idle /\ rs_pc = Idle
IdleRun ==
    /\ copy_assets = Idle /\ todo = Idle /\ outdir = Idle /\ assets_dirs = Idle
    /\ assets_files = Idle /\ md_count = Idle /\ asset_count = Idle /\ pc = Idle
    /\ failed_at = Idle /\ handled = Idle

----------------------------------------------------------------------------
(* remove_frontmatter on its own: applied once, then to its own result.    *)

FMTokens == << Dashes \o <<NL>>, <<NL>>, <<"a">>, <<" ">>, Dashes >>

InitFrontmatter ==
    /\ fm_text \in TextsOf(FMTokens, MaxFMTokens)
    /\ fm_once = <<>> /\ fm_twice = <<>> /\ fm_pc = "start"
    /\ IdleLinks
    /\ IdleResolve
    /\ IdleRun

StripOnce ==
    /\ fm_pc = "start"
    /\ fm_once' = remove_frontmatter(fm_text)
    /\ fm_pc' = "once"
    /\ UNCHANGED <<fm_text, fm_twice, lnVars, rsVars, runVars>>

StripTwice ==
    /\ fm_pc = "once"
    /\ fm_twice' = remove_frontmatter(fm_once)
    /\ fm_pc' = "twice"
    /\ UNCHANGED <<fm_text, fm_once, lnVars, rsVars, runVars>>

NextFrontmatter == StripOnce \/ StripTwice

SpecFrontmatter == InitFrontmatter /\ [][NextFrontmatter]_vars

----------------------------------------------------------------------------
(* convert_md_links_to_wikilinks on a text holding one inline link         *)
(* [display](target) between a prefix and a suffix without links.          *)

TargetTokens ==
    << <<"b">>, <<"a">>, DotMd, <<".", "M", "D">>, <<"#">>, <<"/">>,
       <<"%", "2", "0">>, <<".", "p", "n", "g">> >>

Displays == { <<"b">>, <<"a">>, <<" ", "b", " ">>, <<"a", " ", "b">> }

Prefixes == { <<>>, <<"x", " ">> }
Suffixes == { <<>>, <<" ", "y">> }

LinkText(l) ==
    l.pre \o <<"[">> \o l.display \o <<"]", "(">> \o l.target \o <<")">> \o l.post

InitLinks ==
    /\ ln_link \in [pre : Prefixes, display : Displays,
                    target : TextsOf(TargetTokens, MaxTargetTokens) \ {<<>>},
                    post : Suffixes]
    /\ ln_out = <<>> /\ ln_pc = "start"
    /\ IdleFrontmatter
    /\ IdleResolve
    /\ IdleRun

Convert ==
    /\ ln_pc = "start"
    /\ ln_out' = convert_md_links_to_wikilinks(LinkText(ln_link))
    /\ ln_pc' = "done"
    /\ UNCHANGED <<ln_link, fmVars, rsVars, runVars>>

NextLinks == Convert

SpecLinks == InitLinks /\ [][NextLinks]_vars

----------------------------------------------------------------------------
(* Filename resolution: slugify_filename, then ensure_unique_path against   *)
(* the names present in the output directory.                              *)

NoteMd == <<"N", "o", "t", "e", ".", "m", "d">>

DesiredNames ==
    { NoteMd,
      <<" ">> \o NoteMd \o <<NL>>,
      <<"a", "\\">> \o NoteMd,
      <<"a", ".">> \o NoteMd,
      <<".", "m", "d">>,
      <<"N", "o", "t", "e">> }

Numbered(base, k, ext) == base \o <<"-">> \o ToStr(k) \o ext

\* The names that may be present beforehand: the sanitized name, its numbered
\* forms, and two names that look alike but are none of them.
PresentUniverse(desired) ==
    LET safe == slugify_filename(desired)
        parts == splitext(safe)
    IN  {safe} \cup {Numbered(parts[1], k, parts[2]) : k \in 1..MaxSuffix}
               \cup {parts[1] \o <<"-", "1">>, parts[1] \o parts[2] \o <<"-", "1">>}

InitResolve ==
    /\ rs_desired \in DesiredNames
    /\ rs_present \in SUBSET PresentUniverse(rs_desired)
    /\ rs_out = <<>> /\ rs_pc = "start"
    /\ IdleFrontmatter
    /\ IdleLinks
    /\ IdleRun

Resolve ==
    /\ rs_pc = "start"
    /\ rs_out' = ensure_unique_path(rs_present, slugify_filename(rs_desired))
    /\ rs_pc' = "done"
    /\ UNCHANGED <<rs_desired, rs_present, fmVars, lnVars, runVars>>

NextResolve == Resolve

SpecResolve == InitResolve /\ [][NextResolve]_vars

----------------------------------------------------------------------------
(* process_and_flatten: one run over an export tree.                       *)
(*                                                                         *)
(* The tree is a set of files of three nested directories (two of the      *)
(* names differ only by a control character); os.walk visits               *)
(* the directories top-down and the files of one directory in the order    *)
(* the file system lists them, which is any order.  The output directory   *)
(* lies outside the export tree.                                           *)

DirA == << <<"A">> >>
DirAB == << <<"A">>, <<"b", "]", "(", "c", ".", "m", "d", ")">> >>

FM == <<"-","-","-",NL,"t",NL,"-","-","-",NL>>

AllFiles ==
    { [id |-> 1, dir |-> <<>>,  name |-> NoteMd, md |-> TRUE,
       raw |-> FM \o <<"x">>],
      [id |-> 2, dir |-> DirA,  name |-> NoteMd, md |-> TRUE,
       raw |-> <<"[","b","]","(","b",".","m","d",")">>],
      [id |-> 3, dir |-> DirAB, name |-> NoteMd, md |-> TRUE,
       raw |-> FM \o <<"[","a","]","(","d","/","b",".","m","d",")">>],
      [id |-> 4, dir |-> <<>>,  name |-> <<"i",".","p","n","g">>, md |-> FALSE,
       raw |-> <<>>],
      [id |-> 5, dir |-> DirA,  name |-> <<"i",".","p","n","g">>, md |-> FALSE,
       raw |-> <<>>],
      [id |-> 6, dir |-> <<>>,  name |-> <<"N","o","t","e","\t",".","m","d">>,
       md |-> TRUE, raw |-> <<"[","a"," ","b","]","(","a","%","2","0","b",".","M","D","#","h",")">>] }

FileOf(id) == CHOOSE f \in AllFiles : f.id = id

\* A file of the output directory: the Document that wrote it (0: it was there
\* before the run) and the text it holds.
OldFile == [by |-> 0, text |-> <<"o">>]

InitRun ==
    /\ copy_assets \in BOOLEAN
    /\ todo \in {t \in SUBSET AllFiles : Cardinality(t) <= MaxFiles}
    /\ \E old \in SUBSET {NoteMd, Numbered(<<"N","o","t","e">>, 1, DotMd)} :
          outdir = [n \in old |-> OldFile]
    /\ assets_dirs = {}
    /\ assets_files = {}
    /\ md_count = 0
    /\ asset_count = 0
    /\ pc = "start"
    /\ failed_at = "none"
    /\ handled = <<>>
    /\ IdleFrontmatter
    /\ IdleLinks
    /\ IdleResolve

quiet == <<fmVars, lnVars, rsVars>>

\* Lines 127-136: both directories are made before the walk; an error of
\* os.makedirs is not caught and ends the run.
Setup ==
    /\ pc = "start"
    /\ \/ pc' = "aborted" /\ failed_at' = "output_folder"
       \/ copy_assets /\ pc' = "aborted" /\ failed_at' = "assets_root"
       \/ pc' = "walk" /\ failed_at' = failed_at
    /\ UNCHANGED <<copy_assets, todo, outdir, assets_dirs, assets_files,
                   md_count, asset_count, handled, quiet>>

\* The files os.walk may yield next: those of the topmost directory left.
NextFiles == {f \in todo : \A g \in todo : Len(f.dir) <= Len(g.dir)}

\* Lines 141-143 with process_file.  The read may fail (lines 89-91).  The
\* write may fail before the file exists (open fails) or after open has
\* created it, leaving it empty or cut short (lines 107-112).  md_count is
\* incremented in every case.
ProcessFile(f) ==
    /\ pc = "walk"
    /\ f \in NextFiles /\ f.md
    /\ todo' = todo \ {f}
    /\ md_count' = md_count + 1
    /\ LET content == transform(f.raw, f.dir)
           unique_name == ensure_unique_path(DOMAIN outdir, slugify_filename(f.name))
           done(w) == [id |-> f.id, read |-> TRUE, name |-> unique_name,
                       content |-> content, written |-> w]
           file(text) == [n \in DOMAIN outdir \cup {unique_name} |->
                            IF n = unique_name THEN [by |-> f.id, text |-> text]
                            ELSE outdir[n]]
       IN  \/ /\ handled' = Append(handled, [id |-> f.id, read |-> FALSE,
                                             name |-> <<>>, content |-> <<>>,
                                             written |-> "none"])
              /\ outdir' = outdir
           \/ /\ handled' = Append(handled, done("full"))
              /\ outdir' = file(content)
           \/ /\ handled' = Append(handled, done("none"))
              /\ outdir' = outdir
           \/ /\ handled' = Append(handled, done("partial"))
              /\ \E n \in {0, Len(content) \div 2} :
                    outdir' = file(SubSeq(content, 1, n))
    /\ UNCHANGED <<copy_assets, assets_dirs, assets_files, asset_count, pc,
                   failed_at, quiet>>

\* Lines 145-147 with copy_asset.  os.makedirs of the destination directory
\* (line 119) is outside the try: when it fails the exception leaves
\* process_and_flatten.  A failure of shutil.copy2 is caught, and asset_count
\* is incremented whether or not the copy was made.
CopyAsset(f) ==
    /\ pc = "walk"
    /\ f \in NextFiles /\ ~f.md /\ copy_assets
    /\ \/ /\ f.dir # <<>> /\ f.dir \notin assets_dirs
          /\ pc' = "aborted" /\ failed_at' = "asset_dir"
          /\ UNCHANGED <<todo, assets_dirs, assets_files, asset_count>>
       \/ /\ assets_dirs' = IF f.dir = <<>> THEN assets_dirs
                            ELSE assets_dirs \cup {f.dir}
          /\ \/ assets_files' = assets_files \cup {f.id}
             \/ assets_files' = assets_files
          /\ asset_count' = asset_count + 1
          /\ todo' = todo \ {f}
          /\ UNCHANGED <<pc, failed_at>>
    /\ UNCHANGED <<copy_assets, outdir, md_count, handled, quiet>>

\* Line 145 with copy_assets false: the file is passed over.
SkipAsset(f) ==
    /\ pc = "walk"
    /\ f \in NextFiles /\ ~f.md /\ ~copy_assets
    /\ todo' = todo \ {f}
    /\ UNCHANGED <<copy_assets, outdir, assets_dirs, assets_files, md_count,
                   asset_count, pc, failed_at, handled, quiet>>

\* Lines 149-152: the walk is over and the counts are printed.
Finish ==
    /\ pc = "walk" /\ todo = {}
    /\ pc' = "done"
    /\ UNCHANGED <<copy_assets, todo, outdir, assets_dirs, assets_files,
                   md_count, asset_count, failed_at, handled, quiet>>

Next ==
    \/ Setup
    \/ \E f \in AllFiles : ProcessFile(f)
    \/ \E f \in AllFiles : CopyAsset(f)
    \/ \E f \in AllFiles : SkipAsset(f)
    \/ Finish

Spec == InitRun /\ [][Next]_vars

----------------------------------------------------------------------------
(* Properties of remove_frontmatter (under SpecFrontmatter).               *)

\* C5: remove_frontmatter is idempotent: applied to its own result it changes
\* nothing, for every text, also one whose body begins with another block.
C5_Idempotent == fm_pc = "twice" => fm_twice = fm_once

\* The text is an opening --- line, a non-empty content holding no ---, and a
\* closing --- line, with or without the newline that ends it, and nothing else.
OnlyFrontmatter(t) ==
    /\ HasAt(t, 1, Dashes \o <<NL>>)
    /\ \E e \in 6..Len(t) :
          /\ HasAt(t, e, <<NL>> \o Dashes)
          /\ (e + 3 = Len(t) \/ (e + 4 = Len(t) /\ t[e + 4] = NL))
          /\ ~\E i \in 5..(e - 1) : HasAt(t, i, Dashes)

\* C10: a document that is only a frontmatter block reduces to the empty
\* text, whether or not a newline ends its closing delimiter line.
C10_OnlyFrontmatterIsEmptied ==
    (fm_pc # "start" /\ OnlyFrontmatter(fm_text)) => fm_once = <<>>

----------------------------------------------------------------------------
(* Properties of convert_md_links_to_wikilinks (under SpecLinks).          *)

EndsWithMd(t) == HasAtCI(t, Len(t) - 2, DotMd)

\* C3: a link whose target, its anchor removed, does not end in .md (in any
\* case) comes out exactly as it went in, whatever surrounds it.
C3_NonMdLinkUntouched ==
    (ln_pc = "done" /\ ~EndsWithMd(DropAnchor(ln_link.target)))
        => ln_out = LinkText(ln_link)

\* The bare name of a target: anchor stripped, URL-decoded, reduced to the
\* final filename segment, the .md extension removed.
BareName(target) ==
    LET file == basename(unquote(DropAnchor(target)))
    IN  IF EndsWithMd(file) THEN SubSeq(file, 1, Len(file) - 3) ELSE file

\* C4: a link whose target has the .md extension (a name, then .md) becomes [[name]] when its
\* display text equals the bare name and [[name|display]], with the original
\* display text, otherwise.
C4_MdLinkBecomesWikilink ==
    (ln_pc = "done" /\ EndsWithMd(DropAnchor(ln_link.target))
                    /\ BareName(ln_link.target) # <<>>)
        => LET name == BareName(ln_link.target)
               link == IF ln_link.display = name
                       THEN <<"[", "[">> \o name \o <<"]", "]">>
                       ELSE <<"[", "[">> \o name \o <<"|">> \o ln_link.display
                                \o <<"]", "]">>
           IN  ln_out = ln_link.pre \o link \o ln_link.post

----------------------------------------------------------------------------
(* Properties of the filename resolver (under SpecResolve).                *)

\* C6: the resolver returns the sanitized name when it is not present, and
\* otherwise stem-k.ext for the smallest k >= 1 whose name is not present.
C6_SmallestFreeSuffix ==
    rs_pc = "done" =>
        LET safe == slugify_filename(rs_desired)
            stem == splitext(safe)[1]
            ext == splitext(safe)[2]
            free == {k \in 1..(Cardinality(rs_present) + 1) :
                        Numbered(stem, k, ext) \notin rs_present}
        IN  IF safe \notin rs_present THEN rs_out = safe
            ELSE rs_out = Numbered(stem, Min(free), ext)

\* Note.md and Note-1.md are present and Note.md is asked for: Note-2.md.
C6_Witness ==
    /\ rs_pc = "done"
    /\ rs_desired = NoteMd
    /\ rs_present = {NoteMd, <<"N", "o", "t", "e", "-", "1", ".", "m", "d">>}
    /\ rs_out = <<"N", "o", "t", "e", "-", "2", ".", "m", "d">>

----------------------------------------------------------------------------
(* Properties of a run (under Spec).                                       *)

\* The Documents for which process_file reached ensure_unique_path.
Resolved == {i \in 1..Len(handled) : handled[i].read}

\* C1: within one run no two Documents are resolved to the same Output Path,
\* whatever the output directory held and whichever reads and writes failed.
C1_DistinctOutputPaths ==
    pc # "start" =>
        \A i, j \in Resolved : i # j => handled[i].name # handled[j].name

\* C2: once the output directory exists, no failure on a single file, the
\* making of an asset's destination directory included, aborts the run.
C2_FileFailureNeverAborts ==
    pc = "aborted" => failed_at \in {"output_folder", "assets_root"}

\* The breadcrumb line of the named segments: **Parent:** [[s1]] > ... > [[sn]]
RECURSIVE Crumbs(_)
Crumbs(segs) ==
    IF Len(segs) = 1 THEN <<"[", "[">> \o segs[1] \o <<"]", "]">>
    ELSE <<"[", "[">> \o segs[1] \o <<"]", "]", " ", ">", " ">> \o Crumbs(From(segs, 2))

\* C7: the text produced for a Document below the export root is its
\* breadcrumb line, a blank line, and the frontmatter-stripped, link-rewritten
\* body, the breadcrumb itself never rewritten; at the root it is the body.
C7_BreadcrumbThenBody ==
    pc # "start" =>
        \A i \in Resolved :
            LET f == FileOf(handled[i].id)
                body == convert_md_links_to_wikilinks(remove_frontmatter(f.raw))
            IN  handled[i].content =
                    IF f.dir = <<>> THEN body
                    ELSE ParentLabel \o Crumbs(f.dir) \o <<NL, NL>> \o body

\* A Document two directories down, with frontmatter and a link, was written.
C7_Witness ==
    /\ pc = "done"
    /\ \E i \in Resolved :
          /\ handled[i].id = 3
          /\ handled[i].written = "full"
          /\ outdir[handled[i].name].text = handled[i].content
          /\ Len(handled[i].content) > Len(ParentLabel)

\* C8: no partial writes: a file a Document has put in the output directory
\* holds that Document's complete transformed text.
C8_NoPartialWrite ==
    pc # "start" =>
        \A n \in DOMAIN outdir :
            outdir[n].by # 0 =>
                \E i \in Resolved :
                    /\ handled[i].id = outdir[n].by
                    /\ handled[i].name = n
                    /\ outdir[n].text = handled[i].content

\* C9: at the end of a run the Markdown count is the number of Documents
\* transformed and written, and the asset count the number of assets copied.
C9_CountsAreExact ==
    pc = "done" =>
        /\ md_count = Cardinality({i \in 1..Len(handled) : handled[i].written = "full"})
        /\ copy_assets => asset_count = Cardinality(assets_files)

====
